---- MODULE Spec2Model ----
(***************************************************************************)
(* Model of the roast scorer (src/model/roast_scorer.py), of the roast     *)
(* generator (src/model/roast_generator.py) and of the battle orchestrator *)
(* (src/app.py).                                                           *)
(*                                                                         *)
(* Python strings are TLA+ strings; the character at position i of s is    *)
(* SubSeq(s, i, i).  A float that the code computes as sum/len is held as  *)
(* the exact fraction [num, den]; the one-decimal float round(x, 1) is     *)
(* held as an integer number of tenths (87 stands for 8.7).                *)
(***************************************************************************)
EXTENDS Integers, Sequences, FiniteSets, TLC

VARIABLES
    ctor_arg,   \* the api_key argument __init__ was called with
    env_key,    \* os.getenv("GROQ_API_KEY") at construction
    api_key,    \* self.api_key
    use_ai,     \* self.use_ai
    model,      \* self.model, set in AI mode only
    calls,      \* number of public calls completed on the scorer
    last,       \* the latest call: operation, arguments, remote outcomes, result
    first,      \* the first call made on the scorer, same shape as last
    input,      \* the arguments a single-call run was started with
    battle_history, \* st.session_state.battle_history
    user_score,     \* st.session_state.user_score
    ai_score,       \* st.session_state.ai_score
    round_number,   \* st.session_state.round_number
    generator,      \* st.session_state.generator
    scorer,         \* st.session_state.scorer; its fields are api_key, use_ai, model
    key_input,      \* the text the sidebar's API-key input holds
    battle,         \* the battle_round call in progress: its position and locals
    steps           \* the latest battle_round call and what it has done, in order

\* the session state and the widgets of the orchestrator
app_vars ==
    <<battle_history, user_score, ai_score, round_number, generator, scorer,
      key_input, battle, steps>>

vars ==
    <<ctor_arg, env_key, api_key, use_ai, model, calls, last, first, input,
      battle_history, user_score, ai_score, round_number, generator, scorer,
      key_input, battle, steps>>

\* ------------------------------------------------------------------------
\* Python string primitives used by the scorer
\* ------------------------------------------------------------------------

NL == "\n"

Char(s, i) == SubSeq(s, i, i)

UpperAlpha == "ABCDEFGHIJKLMNOPQRSTUVWXYZ"

LowerAlpha == "abcdefghijklmnopqrstuvwxyz"

Digits == "0123456789"

\* the set of the characters of a string
CharsOf(alphabet) == {Char(alphabet, i) : i \in 1..Len(alphabet)}

UpperSet == CharsOf(UpperAlpha)

LowerSet == CharsOf(LowerAlpha)

DigitSet == CharsOf(Digits)

\* position of character c in the string alphabet, which contains it
IndexIn(alphabet, c) == CHOOSE i \in 1..Len(alphabet) : Char(alphabet, i) = c

LowerChar(c) == IF c \in UpperSet THEN Char(LowerAlpha, IndexIn(UpperAlpha, c)) ELSE c

UpperChar(c) == IF c \in LowerSet THEN Char(UpperAlpha, IndexIn(LowerAlpha, c)) ELSE c

RECURSIVE Lower(_)
\* str.lower(), one half of the string after the other
Lower(s) ==
    IF s = "" THEN ""
    ELSE IF Len(s) = 1 THEN LowerChar(s)
    ELSE Lower(SubSeq(s, 1, Len(s) \div 2)) \o Lower(SubSeq(s, Len(s) \div 2 + 1, Len(s)))

RECURSIVE Upper(_)
\* str.upper(), one half of the string after the other
Upper(s) ==
    IF s = "" THEN ""
    ELSE IF Len(s) = 1 THEN UpperChar(s)
    ELSE Upper(SubSeq(s, 1, Len(s) \div 2)) \o Upper(SubSeq(s, Len(s) \div 2 + 1, Len(s)))

\* characters str.strip() removes
Spaces == {" ", NL, "\t", "\r"}

IsSpace(c) == c \in Spaces

\* str.strip(): from the first to the last character that is not a space
Strip(s) ==
    LET n == Len(s)
    IN  IF \A i \in 1..n : IsSpace(Char(s, i)) THEN ""
        ELSE LET first_ == CHOOSE i \in 1..n :
                               /\ ~IsSpace(Char(s, i))
                               /\ \A j \in 1..(i - 1) : IsSpace(Char(s, j))
                 last_  == CHOOSE i \in 1..n :
                               /\ ~IsSpace(Char(s, i))
                               /\ \A j \in (i + 1)..n : IsSpace(Char(s, j))
             IN  SubSeq(s, first_, last_)

\* sub in s
Contains(s, sub) ==
    \E i \in 1..(Len(s) - Len(sub) + 1) : SubSeq(s, i, i + Len(sub) - 1) = sub

\* c in s for a one-character c
HasChar(s, c) == \E i \in 1..Len(s) : Char(s, i) = c

\* s.count(c) for a one-character c
Count(s, c) == Cardinality({i \in 1..Len(s) : Char(s, i) = c})

\* 0 when c does not occur in s, else the position of its first occurrence
Find(s, c) ==
    IF \A i \in 1..Len(s) : Char(s, i) # c THEN 0
    ELSE CHOOSE i \in 1..Len(s) :
             /\ Char(s, i) = c
             /\ \A j \in 1..(i - 1) : Char(s, j) # c

RECURSIVE Split(_, _)
\* s.split(c): the sequence of pieces between occurrences of c
Split(s, c) ==
    LET i == Find(s, c)
    IN  IF i = 0 THEN <<s>>
        ELSE <<SubSeq(s, 1, i - 1)>> \o Split(SubSeq(s, i + 1, Len(s)), c)

\* the regular expression class \w (ASCII part)
WordChars == LowerSet \cup UpperSet \cup DigitSet \cup {"_"}

IsWordChar(c) == c \in WordChars

\* re.search(r'\b(\w+)\b.*\b\1\b', s): group 1 lies between two word
\* boundaries, so it is a maximal run of word characters; the same run occurs
\* again later as a whole word, with no newline in between ('.' excludes it)
RepeatedWord(s) ==
    LET n == Len(s)
        word == {i \in 1..n : IsWordChar(Char(s, i))}
        starts == {i \in word : (i - 1) \notin word}
        EndOf(i) == CHOOSE j \in i..n : /\ \A k \in i..j : k \in word
                                        /\ (j + 1) \notin word
    IN  \E a \in starts : \E b \in starts :
            /\ EndOf(a) < b
            /\ SubSeq(s, a, EndOf(a)) = SubSeq(s, b, EndOf(b))
            /\ \A k \in (EndOf(a) + 1)..(b - 1) : Char(s, k) # NL

RECURSIVE SumOver(_, _)
\* sum(f[k] for k in keys)
SumOver(f, keys) ==
    IF keys = {} THEN 0
    ELSE LET k == CHOOSE k \in keys : TRUE IN f[k] + SumOver(f, keys \ {k})

\* round(num/den, 1) in tenths, for den > 0: Python rounds the float to the
\* nearest tenth, and an exact tie (x.25, x.75 are exact floats) to the even one
Round1(num, den) ==
    LET q == (10 * num) \div den
        r == (10 * num) % den
    IN  IF 2 * r < den THEN q
        ELSE IF 2 * r > den THEN q + 1
        ELSE IF q % 2 = 0 THEN q ELSE q + 1

\* ------------------------------------------------------------------------
\* Input texts
\* ------------------------------------------------------------------------

RECURSIVE Repeat(_, _)
Repeat(s, n) == IF n = 0 THEN "" ELSE s \o Repeat(s, n - 1)

\* roast texts: the empty string, the texts of the module's own test run and
\* of the documentation, texts in each length band (< 20, 20..49, 50..150,
\* 151..200, > 200), and texts that get every penalty, every bonus, and the
\* two creativity bonuses alone
Roasts ==
    {"",
     "No!!!",
     "Why are you like this? You are the worst, nobody likes you!",
     "You are like a clock, like broken.",
     "You're fine.",
     "Nobody asked!",
     "Bad" \o NL \o "bad",
     "You're stupid and ugly.",
     "Error: No roast generated",
     "A devastatingly clever line.",
     "You are like a broken clock.",
     "Really?! Wow!! Just wow!!!",
     "You're like a cloud - when you disappear, it's a beautiful day.",
     "Your personality is as bland as unseasoned chicken cooked by someone who thinks mayo is spicy.",
     Repeat("so boring, ", 15),
     Repeat("Worst. Only. ", 16) \o "Why?"}

SessionRoasts ==
    {"",
     "You're fine.",
     "You are like a broken clock.",
     "Really?! Wow!! Just wow!!!",
     "You're like a cloud - when you disappear, it's a beautiful day."}

\* the lines a response is put together from; "" stands for a line left out
CreativityLines == {"", "CREATIVITY: 9", "CREATIVITY: 11", "creativity : +7"}

HumorLines == {"", "HUMOR: 7", "HUMOR: 0"}

ImpactLines == {"", "IMPACT: 10", "IMPACT: -3", "IMPACT: 8/10"}

DeliveryLines == {"", "DELIVERY: 8", "DELIVERY: N/A", " Delivery:6 "}

FeedbackLines == {"", "FEEDBACK: Sharp, but wordy.", "FEEDBACK:"}

TrailingLines == {"", "Note: scores are out of 10", "DELIVERY: 2", "HUMOR: many"}

RECURSIVE JoinLines(_)
\* the lines that are present, joined by newlines
JoinLines(lines) ==
    IF lines = <<>> THEN ""
    ELSE LET rest == JoinLines(Tail(lines))
         IN  IF Head(lines) = "" THEN rest
             ELSE IF rest = "" THEN Head(lines)
             ELSE Head(lines) \o NL \o rest

Responses ==
    {JoinLines(<<c, h, i, d, f, t>>) :
        c \in CreativityLines, h \in HumorLines, i \in ImpactLines,
        d \in DeliveryLines, f \in FeedbackLines, t \in TrailingLines}

SessionResponses ==
    {JoinLines(<<"CREATIVITY: 8", "HUMOR: 7", "IMPACT: 9", "DELIVERY: 8",
                 "FEEDBACK: Great use of metaphor, but could be more concise.">>),
     JoinLines(<<"CREATIVITY: 9", "DELIVERY: N/A">>),
     "I cannot judge this roast.",
     "SCORE: 9"}

CompareResponses ==
    {"", "CREATIVITY: 9", "HUMOR: 6", "HUMOR: 6" \o NL \o "IMPACT: 7",
     JoinLines(<<"CREATIVITY: 8", "HUMOR: 7", "IMPACT: 9", "DELIVERY: 8">>),
     JoinLines(<<"CREATIVITY: 8", "HUMOR: 7", "IMPACT: 9", "DELIVERY: 9">>)}

\* responses with one numeric key and FEEDBACK lines of every kind: two
\* lines, a last line without a value, a value with a colon in it, a key in
\* lower case
FeedbackResponses ==
    {JoinLines(<<"HUMOR: 7", "FEEDBACK: Sharp, but wordy.", "FEEDBACK: Too long.">>),
     JoinLines(<<"HUMOR: 7", "FEEDBACK: Sharp, but wordy.", "FEEDBACK:">>),
     JoinLines(<<"HUMOR: 7", "FEEDBACK: In short: weak.">>),
     JoinLines(<<"HUMOR: 7", " feedback :  Try harder. ">>)}

\* every response text of the model
AllResponses == Responses \cup FeedbackResponses \cup SessionResponses \cup CompareResponses

\* ------------------------------------------------------------------------
\* Roast generator: styles and fallback roasts
\* ------------------------------------------------------------------------

\* the keys of self.styles
styles == {"savage", "clever", "playful", "creative", "cringe"}

fallbacks ==
    [savage   |-> <<"You're like a participation trophy - nobody really wanted you, but here you are anyway.",
                    "I'd explain how you lost this roast battle, but I don't have the crayons or the patience.">>,
     clever   |-> <<"You bring everyone so much joy - when you leave the room.",
                    "You're proof that evolution can go in reverse.">>,
     playful  |-> <<"You're like a software update - nobody asked for you, but you show up anyway!",
                    "I'd call you average, but that would be an insult to average people.">>,
     creative |-> <<"You're like a cloud - when you disappear, it's a beautiful day.",
                    "You have the personality of a terms and conditions agreement that nobody reads.">>,
     cringe   |-> <<"Are you a keyboard? Because you're just my type... of disappointment!",
                    "If you were a vegetable, you'd be a cabbage - bland and nobody's favorite.">>]

\* _get_fallback_roast(style) when random.choice takes the entry at choice
_get_fallback_roast(style, choice) ==
    (IF style \in DOMAIN fallbacks THEN fallbacks[style] ELSE fallbacks["clever"])[choice]

\* what generate_roast returns from its except clause
FallbackText(style, choice) ==
    "[API Error - Using Fallback] " \o _get_fallback_roast(style, choice)

FallbackTexts == {FallbackText(style, choice) : style \in styles, choice \in 1..2}

\* ------------------------------------------------------------------------
\* Grade and feedback
\* ------------------------------------------------------------------------

\* the key order of the scores dict literal
Dims == <<"creativity", "humor", "impact", "delivery">>

DimSet == {Dims[i] : i \in 1..Len(Dims)}

\* _get_grade with strict comparisons: a score on a threshold gets the lower letter
GetGradeStrict(score) ==
    IF score.num > 9 * score.den THEN "S"
    ELSE IF score.num > 8 * score.den THEN "A"
    ELSE IF score.num > 7 * score.den THEN "B"
    ELSE IF score.num > 6 * score.den THEN "C"
    ELSE IF score.num > 5 * score.den THEN "D"
    ELSE "F"

\* _get_grade(score) on the unrounded score num/den
_get_grade(score) ==
    IF score.num >= 9 * score.den THEN "S"
    ELSE IF score.num >= 8 * score.den THEN "A"
    ELSE IF score.num >= 7 * score.den THEN "B"
    ELSE IF score.num >= 6 * score.den THEN "C"
    ELSE IF score.num >= 5 * score.den THEN "D"
    ELSE "F"

feedback_templates ==
    [creativity |-> "Try using more metaphors or unexpected comparisons!",
     humor      |-> "Add more wit or clever wordplay to make it funnier!",
     impact     |-> "Make it more cutting - go for the jugular!",
     delivery   |-> "Work on making it more concise and punchy!"]

\* min(scores, key=scores.get): the first key, in dict order, of least value
MinKey(scores) ==
    Dims[CHOOSE i \in 1..Len(Dims) :
            /\ \A j \in 1..Len(Dims) : scores[Dims[i]] <= scores[Dims[j]]
            /\ \A j \in 1..(i - 1) : scores[Dims[j]] > scores[Dims[i]]]

\* max(scores, key=scores.get): the first key, in dict order, of greatest value
MaxKey(scores) ==
    Dims[CHOOSE i \in 1..Len(Dims) :
            /\ \A j \in 1..Len(Dims) : scores[Dims[i]] >= scores[Dims[j]]
            /\ \A j \in 1..(i - 1) : scores[Dims[j]] < scores[Dims[i]]]

\* _generate_feedback that calls a gap of 2 strong already
GenerateFeedbackFromTwo(scores) ==
    LET lowest  == MinKey(scores)
        highest == MaxKey(scores)
    IN  IF scores[highest] - scores[lowest] >= 2
        THEN "Strong " \o highest \o ", but " \o feedback_templates[lowest]
        ELSE "Well-balanced roast! Keep it up!"

_generate_feedback(scores) ==
    LET lowest  == MinKey(scores)
        highest == MaxKey(scores)
    IN  IF scores[highest] - scores[lowest] > 2
        THEN "Strong " \o highest \o ", but " \o feedback_templates[lowest]
        ELSE "Well-balanced roast! Keep it up!"

\* ------------------------------------------------------------------------
\* Rule-based scoring
\* ------------------------------------------------------------------------

comparison_words == {"like", "as if", "resembles", "looks like", "sounds like"}

impact_words == {"never", "always", "nobody", "everyone", "worst", "best", "only"}

Min(a, b) == IF a < b THEN a ELSE b

Max(a, b) == IF a > b THEN a ELSE b

\* adjustments in which a comparison is worth 5 points of creativity and a
\* row of exclamation marks costs 5 points of humor
AdjustedSteep(roast, lower) ==
    [creativity |-> 5 + (IF \E word \in comparison_words : Contains(lower, word)
                         THEN 5 ELSE 0)
                      + (IF RepeatedWord(lower) THEN 1 ELSE 0),
     humor      |-> 5 + (IF Count(roast, "!") = 1 THEN 1
                         ELSE IF Count(roast, "!") > 2 THEN -5 ELSE 0)
                      + (IF HasChar(roast, "?") THEN 1 ELSE 0),
     impact     |-> 5 + (IF \E word \in impact_words : Contains(lower, word)
                         THEN 1 ELSE 0),
     delivery   |-> 5 + (IF 50 <= Len(roast) /\ Len(roast) <= 150 THEN 2
                         ELSE IF Len(roast) < 20 THEN -2
                         ELSE IF Len(roast) > 200 THEN -1 ELSE 0)]

\* the four sub-scores after every adjustment, before the clamp, for a roast
\* and its lower-cased text
Adjusted(roast, lower) ==
    [creativity |-> 5 + (IF \E word \in comparison_words : Contains(lower, word)
                         THEN 2 ELSE 0)
                      + (IF RepeatedWord(lower) THEN 1 ELSE 0),
     humor      |-> 5 + (IF Count(roast, "!") = 1 THEN 1
                         ELSE IF Count(roast, "!") > 2 THEN -1 ELSE 0)
                      + (IF HasChar(roast, "?") THEN 1 ELSE 0),
     impact     |-> 5 + (IF \E word \in impact_words : Contains(lower, word)
                         THEN 1 ELSE 0),
     delivery   |-> 5 + (IF 50 <= Len(roast) /\ Len(roast) <= 150 THEN 2
                         ELSE IF Len(roast) < 20 THEN -2
                         ELSE IF Len(roast) > 200 THEN -1 ELSE 0)]

RuleAdjusted(roast) == Adjusted(roast, Lower(roast))

\* the clamp of line 163 applied to every sub-score
Clamped(adjusted) == [key \in DimSet |-> Min(10, Max(1, adjusted[key]))]

\* the record built from the clamped scores
RuleRecord(scores) ==
    [creativity |-> scores["creativity"],
     humor      |-> scores["humor"],
     impact     |-> scores["impact"],
     delivery   |-> scores["delivery"],
     overall    |-> Round1(SumOver(scores, DimSet), Cardinality(DimSet)),
     feedback   |-> _generate_feedback(scores),
     grade      |-> _get_grade([num |-> SumOver(scores, DimSet), den |-> Cardinality(DimSet)])]

RuleBasedBody(roast) == RuleRecord(Clamped(RuleAdjusted(roast)))

\* RuleBasedBody tabulated over the texts the model scores, the roasts and
\* the generator's fallback texts: each is computed once
RuleBasedMemo == [roast \in Roasts \cup FallbackTexts |-> RuleBasedBody(roast)]

\* _rule_based_score handing back the record of the previous call when there
\* is one, as a result cache that forgets to key on the roast would
RuleBasedStale(roast) ==
    IF last.op = "score_roast" /\ last.result.status = "returned"
    THEN last.result.value
    ELSE RuleBasedMemo[roast]

_rule_based_score(roast) == RuleBasedMemo[roast]

\* ------------------------------------------------------------------------
\* AI scoring
\* ------------------------------------------------------------------------

RECURSIVE DigitsValue(_, _)
\* the number written by a string of digits and underscores, given the
\* value acc of the digits already read
DigitsValue(s, acc) ==
    IF s = "" THEN acc
    ELSE IF Char(s, 1) = "_" THEN DigitsValue(SubSeq(s, 2, Len(s)), acc)
    ELSE DigitsValue(SubSeq(s, 2, Len(s)), 10 * acc + IndexIn(Digits, Char(s, 1)) - 1)

\* int() on a text without surrounding whitespace: one optional sign, then
\* decimal digits that single underscores may separate
ParseSigned(negative, body) ==
    IF /\ Len(body) > 0
       /\ \A i \in 1..Len(body) : Char(body, i) \in DigitSet \cup {"_"}
       /\ Char(body, 1) # "_" /\ Char(body, Len(body)) # "_"
       /\ \A i \in 1..(Len(body) - 1) : ~(Char(body, i) = "_" /\ Char(body, i + 1) = "_")
    THEN [ok |-> TRUE,
          val |-> IF negative THEN 0 - DigitsValue(body, 0) ELSE DigitsValue(body, 0)]
    ELSE [ok |-> FALSE, val |-> 0]

ParseStripped(t) ==
    IF t # "" /\ Char(t, 1) \in {"+", "-"}
    THEN ParseSigned(Char(t, 1) = "-", SubSeq(t, 2, Len(t)))
    ELSE ParseSigned(FALSE, t)

\* int(value): ok is FALSE where int raises ValueError
ParseInt(value) == ParseStripped(Strip(value))

NumericKeys == {"CREATIVITY", "HUMOR", "IMPACT", "DELIVERY"}

\* StoreScore dropping a value that does not parse (except: pass)
StoreScoreSkipBad(parsed, key, int) ==
    IF int.ok
    THEN [parsed EXCEPT !.scores = (Lower(key) :> int.val) @@ parsed.scores]
    ELSE parsed

\* scores[key.lower()] = int(value), or 5 when int raised
StoreScore(parsed, key, int) ==
    [parsed EXCEPT !.scores = (Lower(key) :> (IF int.ok THEN int.val ELSE 5)) @@ parsed.scores]

\* StoreKeyValue taking every key but FEEDBACK for a numeric one
StoreKeyValueAnyKey(parsed, key, value) ==
    IF key = "FEEDBACK" THEN [parsed EXCEPT !.feedback = value]
    ELSE StoreScore(parsed, key, ParseInt(value))

\* the branch on the key of a line that has a colon
StoreKeyValue(parsed, key, value) ==
    IF key \in NumericKeys THEN StoreScore(parsed, key, ParseInt(value))
    ELSE IF key = "FEEDBACK" THEN [parsed EXCEPT !.feedback = value]
    ELSE parsed

\* one iteration of the loop over the response's lines; parsed holds the
\* scores dict and the feedback string built so far
ParseLine(parsed, line) ==
    IF ~HasChar(line, ":") THEN parsed
    ELSE StoreKeyValue(parsed,
                       Upper(Strip(SubSeq(line, 1, Find(line, ":") - 1))),
                       Strip(SubSeq(line, Find(line, ":") + 1, Len(line))))

RECURSIVE ParseLines(_, _)
ParseLines(parsed, lines) ==
    IF lines = <<>> THEN parsed
    ELSE ParseLines(ParseLine(parsed, Head(lines)), Tail(lines))

\* the parse of the whole response: scores = {}, feedback = "", then the loop
ParseResponse(response) ==
    ParseLines([scores |-> <<>>, feedback |-> ""], Split(response, NL))

\* content.strip() and its parse, tabulated over the response texts of the
\* model: each is computed once
ParseMemo == [content \in AllResponses |-> ParseResponse(Strip(content))]

\* scores.get(key, 5)
GetOr5(scores, key) == IF key \in DOMAIN scores THEN scores[key] ELSE 5

\* What the remote service does with the single request of one call:
\*   raise         chat.completions.create raises
\*   no_choices    it returns a completion whose choices list is empty
\*   none_content  it returns a message whose content is None
\*   text          it returns a message with the given content
RemoteRaise == [kind |-> "raise"]

RemoteNoChoices == [kind |-> "no_choices"]

RemoteNoneContent == [kind |-> "none_content"]

RemoteText(content) == [kind |-> "text", content |-> content]

\* the value of a call that ends by returning, or by raising
Returned(value, requests) == [status |-> "returned", value |-> value, requests |-> requests]

Raised(exc, requests) == [status |-> "raised", exc |-> exc, requests |-> requests]

\* the parsed feedback as it is, empty or not
FeedbackAsParsed(feedback) == feedback

\* feedback or "Nice roast!"
FeedbackOrDefault(feedback) == IF feedback # "" THEN feedback ELSE "Nice roast!"

\* a record whose overall is the mean of its four sub-score fields, the
\* defaults of the missing keys included
AiRecordMeanOfFour(roast, parsed) ==
    IF DOMAIN parsed.scores = {}
    THEN _rule_based_score(roast)
    ELSE [creativity |-> GetOr5(parsed.scores, "creativity"),
          humor      |-> GetOr5(parsed.scores, "humor"),
          impact     |-> GetOr5(parsed.scores, "impact"),
          delivery   |-> GetOr5(parsed.scores, "delivery"),
          overall    |-> Round1(SumOver([key \in DimSet |-> GetOr5(parsed.scores, key)], DimSet),
                                Cardinality(DimSet)),
          feedback   |-> FeedbackOrDefault(parsed.feedback),
          grade      |-> _get_grade([num |-> SumOver(parsed.scores, DOMAIN parsed.scores),
                                     den |-> Cardinality(DOMAIN parsed.scores)])]

\* lines 98-112: the record for a parse, or the rule-based one when no
\* numeric key was found
AiRecord(roast, parsed) ==
    IF DOMAIN parsed.scores = {}
    THEN _rule_based_score(roast)
    ELSE [creativity |-> GetOr5(parsed.scores, "creativity"),
          humor      |-> GetOr5(parsed.scores, "humor"),
          impact     |-> GetOr5(parsed.scores, "impact"),
          delivery   |-> GetOr5(parsed.scores, "delivery"),
          overall    |-> Round1(SumOver(parsed.scores, DOMAIN parsed.scores),
                                Cardinality(DOMAIN parsed.scores)),
          feedback   |-> FeedbackOrDefault(parsed.feedback),
          grade      |-> _get_grade([num |-> SumOver(parsed.scores, DOMAIN parsed.scores),
                                     den |-> Cardinality(DOMAIN parsed.scores)])]

\* the body of the try block: one request, then the parse
AiTryBody(roast, outcome) ==
    IF outcome.kind = "raise" THEN Raised("APIError", 1)
    ELSE IF outcome.kind = "no_choices" THEN Raised("IndexError", 1)
    ELSE IF outcome.kind = "none_content" THEN Raised("AttributeError", 1)
    ELSE Returned(AiRecord(roast, ParseMemo[outcome.content]), 1)

\* a handler for transport errors only (except APIError)
ExceptCatchesTransportOnly(exc) == exc = "APIError"

\* except Exception: every exception the try block can raise is an Exception
ExceptCatches(exc) == exc \in {"APIError", "IndexError", "AttributeError"}

\* the except clause, which answers a caught exception by rule-based scoring
AiExcept(roast, attempt) ==
    IF attempt.status = "raised" /\ ExceptCatches(attempt.exc)
    THEN Returned(_rule_based_score(roast), attempt.requests)
    ELSE attempt

\* _ai_score that sends the request a second time when the first attempt raised
AiScoreRetry(roast, outcome) ==
    IF AiTryBody(roast, outcome).status = "raised"
    THEN [AiExcept(roast, AiTryBody(roast, outcome)) EXCEPT !.requests = 2]
    ELSE AiTryBody(roast, outcome)

_ai_score(roast, outcome) == AiExcept(roast, AiTryBody(roast, outcome))

\* Python's None, and the absence of an attribute
None == "<None>"

\* bool(x) for x a string or None
Truthy(x) == x # None /\ x # ""

NoCall == [op |-> "none"]

NoInput == [op |-> "none"]

\* no remote request is made by a call in rule-based mode
NoRemote == [kind |-> "not_called"]

\* number of public calls one session makes
MaxCalls == 3

\* __init__ that looks at its argument only
RoastScorerArgOnly(arg, env) ==
    [api_key |-> arg,
     use_ai  |-> Truthy(arg),
     model   |-> IF Truthy(arg) THEN "openai/gpt-oss-120b" ELSE None]

\* RoastScorer.__init__(api_key=arg) with GROQ_API_KEY = env
RoastScorer(arg, env) ==
    LET key == IF Truthy(arg) THEN arg ELSE env
    IN  [api_key |-> key,
         use_ai  |-> Truthy(key),
         model   |-> IF Truthy(key) THEN "openai/gpt-oss-120b" ELSE None]

score_roast(roast, outcome) ==
    IF use_ai THEN _ai_score(roast, outcome)
    ELSE Returned(_rule_based_score(roast), 0)

\* CompareCalls whose first test is >=, so that equal scores favour roast 1
CompareCallsGe(call1, call2) ==
    IF call1.status = "raised" THEN call1
    ELSE IF call2.status = "raised" THEN Raised(call2.exc, call1.requests + call2.requests)
    ELSE Returned(<<call1.value, call2.value,
                    IF call1.value.overall >= call2.value.overall THEN "Roast 1"
                    ELSE IF call2.value.overall > call1.value.overall THEN "Roast 2"
                    ELSE "Tie">>,
                  call1.requests + call2.requests)

\* compare_roasts after its two score_roast calls; the second call is not
\* made when the first one raised
CompareCalls(call1, call2) ==
    IF call1.status = "raised" THEN call1
    ELSE IF call2.status = "raised" THEN Raised(call2.exc, call1.requests + call2.requests)
    ELSE Returned(<<call1.value, call2.value,
                    IF call1.value.overall > call2.value.overall THEN "Roast 1"
                    ELSE IF call2.value.overall > call1.value.overall THEN "Roast 2"
                    ELSE "Tie">>,
                  call1.requests + call2.requests)

compare_roasts(roast1, roast2, outcome1, outcome2) ==
    CompareCalls(score_roast(roast1, outcome1), score_roast(roast2, outcome2))

\* the outcomes the remote service can have for a call of this scorer
RemoteFor(outcomes) == IF use_ai THEN outcomes ELSE {NoRemote}

\* a caller runs scorer.score_roast(roast); the remote service answers outcome
ScoreRoast(roast, outcome) ==
    /\ calls < MaxCalls
    /\ last' = [op |-> "score_roast", roast |-> roast, outcome |-> outcome,
                result |-> score_roast(roast, outcome)]
    /\ first' = IF first = NoCall THEN last' ELSE first
    /\ calls' = calls + 1
    /\ UNCHANGED <<ctor_arg, env_key, api_key, use_ai, model, input>>
    /\ UNCHANGED app_vars

\* a caller runs scorer.compare_roasts(roast1, roast2)
CompareRoasts(roast1, roast2, outcome1, outcome2) ==
    /\ calls < MaxCalls
    /\ last' = [op |-> "compare_roasts", roast1 |-> roast1, roast2 |-> roast2,
                outcome1 |-> outcome1, outcome2 |-> outcome2,
                result |-> compare_roasts(roast1, roast2, outcome1, outcome2)]
    /\ first' = IF first = NoCall THEN last' ELSE first
    /\ calls' = calls + 1
    /\ UNCHANGED <<ctor_arg, env_key, api_key, use_ai, model, input>>
    /\ UNCHANGED app_vars

\* ------------------------------------------------------------------------
\* Remote outcomes
\* ------------------------------------------------------------------------

Outcomes ==
    {RemoteRaise, RemoteNoChoices, RemoteNoneContent}
        \cup {RemoteText(response) : response \in Responses \cup FeedbackResponses}

SessionOutcomes ==
    {RemoteRaise, RemoteNoneContent} \cup {RemoteText(response) : response \in SessionResponses}

\* ------------------------------------------------------------------------
\* Roast generator: generate_roast
\* ------------------------------------------------------------------------

\* str.strip(c) for a one-character c
StripChar(s, c) ==
    LET n == Len(s)
    IN  IF \A i \in 1..n : Char(s, i) = c THEN ""
        ELSE LET first_ == CHOOSE i \in 1..n :
                               /\ Char(s, i) # c
                               /\ \A j \in 1..(i - 1) : Char(s, j) = c
                 last_  == CHOOSE i \in 1..n :
                               /\ Char(s, i) # c
                               /\ \A j \in (i + 1)..n : Char(s, j) = c
             IN  SubSeq(s, first_, last_)

\* generate_roast(style=style) for an outcome of its remote request: the
\* content stripped of spaces, then of double and of single quotes; every
\* exception of the request is caught and answered by a fallback roast
generate_roast(style, outcome, choice) ==
    IF outcome.kind = "text"
    THEN Returned(StripChar(StripChar(Strip(outcome.content), "\""), "'"), 1)
    ELSE Returned(FallbackText(IF style \in styles THEN style ELSE "clever", choice), 1)

\* ------------------------------------------------------------------------
\* Orchestrator (src/app.py)
\* ------------------------------------------------------------------------

\* no battle_round call is in progress
Idle ==
    [pc |-> "idle", user_roast |-> None, ai_style |-> None, ai_roast |-> None,
     user_scores |-> None, ai_scores |-> None, winner |-> None]

\* the session state a new session starts with, no key typed yet
SessionStart ==
    /\ battle_history = <<>>
    /\ user_score = 0
    /\ ai_score = 0
    /\ round_number = 0
    /\ generator = None
    /\ scorer = None
    /\ key_input = ""
    /\ battle = Idle
    /\ steps = <<>>

\* initialize_models(key); ctor tells which constructor raises, if any
initialize_models(key, ctor) ==
    /\ generator' = IF ctor = "generator_raises" THEN generator ELSE "RoastGenerator"
    /\ IF ctor = "ok"
       THEN /\ scorer' = "RoastScorer"
            /\ ctor_arg' = key
            /\ api_key' = RoastScorer(key, env_key).api_key
            /\ use_ai' = RoastScorer(key, env_key).use_ai
            /\ model' = RoastScorer(key, env_key).model
       ELSE UNCHANGED <<scorer, ctor_arg, api_key, use_ai, model>>

\* the sidebar's key handling, run by every script run with the text the
\* key input holds
Sidebar(key, ctor) ==
    IF Truthy(key) /\ generator = None
    THEN initialize_models(key, ctor)
    ELSE UNCHANGED <<generator, scorer, ctor_arg, api_key, use_ai, model>>

\* the user types a key into the sidebar, which runs the script
TypeKey(key, ctor) ==
    /\ battle.pc = "idle"
    /\ key_input = ""
    /\ key_input' = key
    /\ Sidebar(key, ctor)
    /\ UNCHANGED <<battle_history, user_score, ai_score, round_number, battle, steps>>
    /\ UNCHANGED <<env_key, calls, last, first, input>>

\* a script run that no button started, such as one after a change of the
\* style or difficulty selection
Rerun(ctor) ==
    /\ battle.pc = "idle"
    /\ Sidebar(key_input, ctor)
    /\ UNCHANGED <<battle_history, user_score, ai_score, round_number, battle, steps>>
    /\ UNCHANGED <<key_input, env_key, calls, last, first, input>>

\* a Reset Battle button that leaves the round counter as it is
ResetBattleKeepRound(ctor) ==
    /\ battle.pc = "idle"
    /\ Sidebar(key_input, ctor)
    /\ battle_history' = <<>>
    /\ user_score' = 0
    /\ ai_score' = 0
    /\ UNCHANGED <<round_number, battle, steps, key_input, env_key, calls, last, first, input>>

\* the Reset Battle button; the script run that st.rerun() starts goes
\* through the sidebar once more, which ctor accounts for
ResetBattle(ctor) ==
    /\ battle.pc = "idle"
    /\ Sidebar(key_input, ctor)
    /\ battle_history' = <<>>
    /\ user_score' = 0
    /\ ai_score' = 0
    /\ round_number' = 0
    /\ UNCHANGED <<battle, steps, key_input, env_key, calls, last, first, input>>

\* the entry of steps for a call of battle_round
BattleRoundCall(user_roast, ai_style) ==
    [op |-> "battle_round", user_roast |-> user_roast, ai_style |-> ai_style]

\* the BATTLE button with a roast that is not blank, up to the generator
\* call: the form is drawn only while the key input is not empty; the
\* sidebar runs first, then battle_round starts
Submit(user_roast, ai_style, ctor) ==
    /\ battle.pc = "idle"
    /\ Truthy(key_input)
    /\ Strip(user_roast) # ""
    /\ Sidebar(key_input, ctor)
    /\ IF generator' = None \/ scorer' = None
       THEN /\ steps' = <<BattleRoundCall(user_roast, ai_style), [op |-> "st.error"]>>
            /\ UNCHANGED <<round_number, battle>>
       ELSE /\ round_number' = round_number + 1
            /\ battle' = [Idle EXCEPT !.pc = "generate", !.user_roast = user_roast,
                                      !.ai_style = ai_style]
            /\ steps' = <<BattleRoundCall(user_roast, ai_style)>>
    /\ UNCHANGED <<battle_history, user_score, ai_score>>
    /\ UNCHANGED <<key_input, env_key, calls, last, first, input>>

\* the text battle_round goes on with after the generator call
AiRoastFrom(call) ==
    IF call.status = "raised" THEN "Error: " \o call.exc
    ELSE IF call.value = "" \/ Strip(call.value) = "" THEN "Error: No roast generated"
    ELSE call.value

\* a battle_round that returns at once when the generator gave it nothing
GenerateOrReturn(outcome, choice) ==
    /\ battle.pc = "generate"
    /\ steps' = Append(steps, [op |-> "generate_roast", style |-> battle.ai_style,
                                result |-> generate_roast(battle.ai_style, outcome, choice)])
    /\ battle' = IF steps'[Len(steps')].result.value = "" THEN Idle
                  ELSE [battle EXCEPT !.pc = "score_user",
                                      !.ai_roast = AiRoastFrom(steps'[Len(steps')].result)]
    /\ UNCHANGED <<battle_history, user_score, ai_score, round_number, generator, scorer, key_input>>
    /\ UNCHANGED <<ctor_arg, env_key, api_key, use_ai, model, calls, last, first, input>>

\* battle_round calls the generator
Generate(outcome, choice) ==
    /\ battle.pc = "generate"
    /\ steps' = Append(steps, [op |-> "generate_roast", style |-> battle.ai_style,
                                result |-> generate_roast(battle.ai_style, outcome, choice)])
    /\ battle' = [battle EXCEPT !.pc = "score_user",
                                !.ai_roast = AiRoastFrom(steps'[Len(steps')].result)]
    /\ UNCHANGED <<battle_history, user_score, ai_score, round_number, generator, scorer, key_input>>
    /\ UNCHANGED <<ctor_arg, env_key, api_key, use_ai, model, calls, last, first, input>>

\* the call frame after a score_roast call that fills the local named key;
\* an exception of the call would leave battle_round
Scored(frame, key, call, next) ==
    IF call.status = "returned"
    THEN [frame EXCEPT ![key] = call.value, !.pc = next]
    ELSE Idle

\* battle_round scores the user's roast
ScoreUser(outcome) ==
    /\ battle.pc = "score_user"
    /\ steps' = Append(steps, [op |-> "score_roast", roast |-> battle.user_roast,
                                result |-> score_roast(battle.user_roast, outcome)])
    /\ battle' = Scored(battle, "user_scores", steps'[Len(steps')].result, "score_ai")
    /\ UNCHANGED <<battle_history, user_score, ai_score, round_number, generator, scorer, key_input>>
    /\ UNCHANGED <<ctor_arg, env_key, api_key, use_ai, model, calls, last, first, input>>

\* battle_round scores the AI's roast
ScoreAi(outcome) ==
    /\ battle.pc = "score_ai"
    /\ steps' = Append(steps, [op |-> "score_roast", roast |-> battle.ai_roast,
                                result |-> score_roast(battle.ai_roast, outcome)])
    /\ battle' = Scored(battle, "ai_scores", steps'[Len(steps')].result, "compare")
    /\ UNCHANGED <<battle_history, user_score, ai_score, round_number, generator, scorer, key_input>>
    /\ UNCHANGED <<ctor_arg, env_key, api_key, use_ai, model, calls, last, first, input>>

\* the winner of a round, by the overall fields of the two records
Winner(user_scores, ai_scores) ==
    IF user_scores.overall > ai_scores.overall THEN "You"
    ELSE IF ai_scores.overall > user_scores.overall THEN "AI"
    ELSE "Tie"

\* the entries of steps for the comparison that found winner and for the
\* increment that follows it
WinnerSteps(winner) ==
    <<[op |-> "compare", winner |-> winner]>> \o
        (IF winner = "You" THEN <<[op |-> "user_score += 1"]>>
         ELSE IF winner = "AI" THEN <<[op |-> "ai_score += 1"]>>
         ELSE <<>>)

\* battle_round compares the two overall scores and counts the win
DetermineWinner ==
    /\ battle.pc = "compare"
    /\ battle' = [battle EXCEPT !.pc = "append",
                                !.winner = Winner(battle.user_scores, battle.ai_scores)]
    /\ user_score' = IF battle'.winner = "You" THEN user_score + 1 ELSE user_score
    /\ ai_score' = IF battle'.winner = "AI" THEN ai_score + 1 ELSE ai_score
    /\ steps' = steps \o WinnerSteps(battle'.winner)
    /\ UNCHANGED <<battle_history, round_number, generator, scorer, key_input>>
    /\ UNCHANGED <<ctor_arg, env_key, api_key, use_ai, model, calls, last, first, input>>

\* the record battle_round stores; its timestamp, which nothing reads, is
\* left out
HistoryRecord(frame, round) ==
    [round      |-> round,
     user_roast |-> frame.user_roast,
     ai_roast   |-> frame.ai_roast,
     user_score |-> frame.user_scores.overall,
     ai_score   |-> frame.ai_scores.overall,
     winner     |-> frame.winner]

\* battle_round appends the round to the history and returns
AppendHistory ==
    /\ battle.pc = "append"
    /\ battle_history' = Append(battle_history, HistoryRecord(battle, round_number))
    /\ battle' = Idle
    /\ steps' = Append(steps, [op |-> "battle_history.append",
                                record |-> battle_history'[Len(battle_history')]])
    /\ UNCHANGED <<user_score, ai_score, round_number, generator, scorer, key_input>>
    /\ UNCHANGED <<ctor_arg, env_key, api_key, use_ai, model, calls, last, first, input>>

\* ------------------------------------------------------------------------
\* Specifications
\* ------------------------------------------------------------------------

Credentials == {None, "", "gsk_arg"}

EnvCredentials == {None, "gsk_env"}

\* the state after construction
Constructed ==
    /\ ctor_arg \in Credentials
    /\ env_key \in EnvCredentials
    /\ api_key = RoastScorer(ctor_arg, env_key).api_key
    /\ use_ai = RoastScorer(ctor_arg, env_key).use_ai
    /\ model = RoastScorer(ctor_arg, env_key).model
    /\ calls = 0
    /\ last = NoCall
    /\ first = NoCall
    /\ SessionStart

\* Sessions: any sequence of up to MaxCalls calls on one scorer
Init == Constructed /\ input = NoInput

SessionScore ==
    \E roast \in SessionRoasts : \E outcome \in RemoteFor(SessionOutcomes) :
        ScoreRoast(roast, outcome)

SessionCompare ==
    \E roast1 \in {"You're fine.", "You are like a broken clock."} :
    \E roast2 \in {"You're fine.", "You are like a broken clock."} :
    \E outcome1 \in RemoteFor({RemoteRaise, RemoteText("HUMOR: 6")}) :
    \E outcome2 \in RemoteFor({RemoteRaise, RemoteText("HUMOR: 6")}) :
        CompareRoasts(roast1, roast2, outcome1, outcome2)

Next == SessionScore \/ SessionCompare

Spec == Init /\ [][Next]_vars

\* One score_roast call on every roast and every remote outcome, by a scorer
\* constructed with GROQ_API_KEY unset
InitScore ==
    /\ Constructed
    /\ env_key = None
    /\ \E roast \in Roasts : \E outcome \in RemoteFor(Outcomes) :
          input = [op |-> "score_roast", roast |-> roast, outcome |-> outcome]

ScoreGiven ==
    /\ input.op = "score_roast"
    /\ calls = 0
    /\ ScoreRoast(input.roast, input.outcome)

NextScore == ScoreGiven

SpecScore == InitScore /\ [][NextScore]_vars

CompareRoastSet == Roasts

CompareOutcomes ==
    {RemoteRaise} \cup {RemoteText(response) : response \in CompareResponses}

\* compare_roasts on a pair of roasts, then on the same pair swapped, by a
\* scorer constructed with GROQ_API_KEY unset
InitCompare ==
    /\ Constructed
    /\ env_key = None
    /\ \E roast1 \in CompareRoastSet : \E roast2 \in CompareRoastSet :
       \E outcome1 \in RemoteFor(CompareOutcomes) : \E outcome2 \in RemoteFor(CompareOutcomes) :
          input = [op |-> "compare_roasts", roast1 |-> roast1, roast2 |-> roast2,
                   outcome1 |-> outcome1, outcome2 |-> outcome2]

CompareGiven ==
    /\ input.op = "compare_roasts"
    /\ calls = 0
    /\ CompareRoasts(input.roast1, input.roast2, input.outcome1, input.outcome2)

CompareSwapped ==
    /\ input.op = "compare_roasts"
    /\ calls = 1
    /\ CompareRoasts(input.roast2, input.roast1, input.outcome2, input.outcome1)

NextCompare == CompareGiven \/ CompareSwapped

SpecCompare == InitCompare /\ [][NextCompare]_vars

\* Battles: one browser session of the orchestrator, from its start, with
\* up to MaxRounds rounds between two resets
MaxRounds == 2

\* the keys a user types
BattleKeys == {"gsk_arg"}

\* whether the constructors of initialize_models succeed
CtorOutcomes == {"ok", "generator_raises", "scorer_raises"}

\* the roasts a user submits, none of them blank
BattleRoasts == {"You're fine.", "You are like a broken clock."}

BattleStyles == {"cringe"}

\* what the generator's request does: it fails, or answers a quoted roast,
\* nothing, or quotes around a blank
GeneratorOutcomes ==
    {RemoteRaise, RemoteText("\"You're fine.\""), RemoteText(""), RemoteText("\"' '\"")}

\* what the scorer's request does in a battle
BattleOutcomes == {RemoteRaise, RemoteText("HUMOR: 6")}

\* a new session: no scorer object exists yet
InitBattle ==
    /\ SessionStart
    /\ ctor_arg = None
    /\ env_key = None
    /\ api_key = None
    /\ use_ai = FALSE
    /\ model = None
    /\ calls = 0
    /\ last = NoCall
    /\ first = NoCall
    /\ input = NoInput

BattleTypeKey == \E key \in BattleKeys : \E ctor \in CtorOutcomes : TypeKey(key, ctor)

BattleRerun == \E ctor \in CtorOutcomes : Rerun(ctor)

BattleReset == \E ctor \in CtorOutcomes : ResetBattle(ctor)

BattleSubmit ==
    /\ round_number < MaxRounds
    /\ \E user_roast \in BattleRoasts : \E ai_style \in BattleStyles :
       \E ctor \in CtorOutcomes :
           Submit(user_roast, ai_style, ctor)

BattleGenerate == \E outcome \in GeneratorOutcomes : \E choice \in 1..2 : Generate(outcome, choice)

BattleScoreUser == \E outcome \in BattleOutcomes : ScoreUser(outcome)

BattleScoreAi == \E outcome \in BattleOutcomes : ScoreAi(outcome)

NextBattle ==
    \/ BattleTypeKey
    \/ BattleRerun
    \/ BattleReset
    \/ BattleSubmit
    \/ BattleGenerate
    \/ BattleScoreUser
    \/ BattleScoreAi
    \/ DetermineWinner
    \/ AppendHistory

SpecBattle == InitBattle /\ [][NextBattle]_vars

\* Marathons: one session in which the Reset Battle button is never pressed,
\* with up to MaxMarathon rounds of one user roast
MaxMarathon == 6

MarathonTypeKey == \E key \in BattleKeys : TypeKey(key, "ok")

MarathonSubmit ==
    /\ round_number < MaxMarathon
    /\ Submit("You are like a broken clock.", "cringe", "ok")

MarathonGenerate ==
    \E outcome \in {RemoteRaise, RemoteText("\"You're fine.\"")} : Generate(outcome, 1)

MarathonScoreUser == ScoreUser(RemoteRaise)

MarathonScoreAi == ScoreAi(RemoteRaise)

NextMarathon ==
    \/ MarathonTypeKey
    \/ MarathonSubmit
    \/ MarathonGenerate
    \/ MarathonScoreUser
    \/ MarathonScoreAi
    \/ DetermineWinner
    \/ AppendHistory

SpecMarathon == InitBattle /\ [][NextMarathon]_vars

\* ------------------------------------------------------------------------
\* Properties
\* ------------------------------------------------------------------------

RecordFields == {"creativity", "humor", "impact", "delivery", "overall", "grade", "feedback"}

\* the latest call was score_roast and it returned a record
ScoreReturned == last.op = "score_roast" /\ last.result.status = "returned"

\* the values of the lines of a response whose key, the text before the
\* first colon stripped and upper-cased, is K
KeyValues(content, K) ==
    LET lines == Split(Strip(content), NL)
        KeyOf(line) == Upper(Strip(SubSeq(line, 1, Find(line, ":") - 1)))
        ValueOf(line) == Strip(SubSeq(line, Find(line, ":") + 1, Len(line)))
    IN  {ValueOf(lines[i]) :
            i \in {j \in 1..Len(lines) : HasChar(lines[j], ":") /\ KeyOf(lines[j]) = K}}

KeyValuesOf == [content \in AllResponses |-> [K \in NumericKeys |-> KeyValues(content, K)]]

\* the numeric keys that occur in a response
KeysIn(content) == {K \in NumericKeys : KeyValuesOf[content][K] # {}}

\* the latest score_roast call ran in AI mode and received a text
AiText == last.op = "score_roast" /\ use_ai /\ last.outcome.kind = "text"

\* C1: every sub-score of a record score_roast returns, in either mode and
\* for every remote response, is an integer from 1 to 10
C1_SubScoresInRange ==
    ScoreReturned => \A key \in DimSet : last.result.value[key] \in 1..10

\* C2: overall of every record score_roast returns is the mean of the
\* record's own four sub-scores rounded to one decimal, also when the
\* response had fewer than four numeric keys
C2_OverallIsMeanOfFour ==
    ScoreReturned =>
        last.result.value.overall = Round1(SumOver(last.result.value, DimSet), 4)

\* C3: score_roast never ends by raising: for every roast, mode and remote
\* outcome it returns a record with all seven fields
C3_NeverRaises ==
    last.op = "score_roast" =>
        /\ last.result.status = "returned"
        /\ DOMAIN last.result.value = RecordFields

C3_Witness ==
    /\ last.op = "score_roast" /\ use_ai
    /\ last.roast = ""
    /\ last.outcome.kind = "none_content"
    /\ last.result.status = "returned"

\* C4: in AI mode a remote call that raises is made once, not retried, and
\* the call returns the rule-based record of the same roast
C4_TransportFailure ==
    (last.op = "score_roast" /\ use_ai /\ last.outcome.kind = "raise") =>
        /\ last.result.requests = 1
        /\ last.result.status = "returned"
        /\ last.result.value = RuleBasedBody(last.roast)

C4_Witness ==
    /\ last.op = "score_roast" /\ use_ai /\ last.outcome.kind = "raise"
    /\ last.roast = "You are like a broken clock."
    /\ last.result.status = "returned"
    /\ last.result.value.creativity = 7

\* C5: in AI mode a response with none of the four numeric keys yields the
\* rule-based record of the same roast, in every field
C5_NoNumericKey ==
    (AiText /\ KeysIn(last.outcome.content) = {}) =>
        /\ last.result.status = "returned"
        /\ last.result.value = RuleBasedBody(last.roast)

C5_Witness ==
    /\ AiText
    /\ last.outcome.content = "FEEDBACK: Sharp, but wordy." \o NL \o "Note: scores are out of 10"
    /\ last.roast = "Nobody asked!"
    /\ last.result.status = "returned"
    /\ last.result.value.feedback = "Strong humor, but Work on making it more concise and punchy!"

\* K is the one numeric key of the response whose value does not parse as an
\* integer: all four keys occur, no line of K parses, every line of the
\* other keys does
OnlyBadKey(content, K) ==
    /\ KeysIn(content) = NumericKeys
    /\ \A v \in KeyValuesOf[content][K] : ~ParseInt(v).ok
    /\ \A J \in NumericKeys \ {K} : \A v \in KeyValuesOf[content][J] : ParseInt(v).ok

\* C6: in AI mode, when all four numeric keys occur and the value of one
\* does not parse, that sub-score is 5, the other three are the values
\* written in the response, and overall is the mean of the four
C6_OneBadValue ==
    \A K \in NumericKeys :
        (AiText /\ OnlyBadKey(last.outcome.content, K)) =>
            /\ last.result.status = "returned"
            /\ last.result.value[Lower(K)] = 5
            /\ \A J \in NumericKeys \ {K} :
                  last.result.value[Lower(J)] \in
                      {ParseInt(v).val : v \in KeyValuesOf[last.outcome.content][J]}
            /\ last.result.value.overall =
                  Round1(SumOver(last.result.value, DimSet), 4)

C6_Witness ==
    /\ AiText
    /\ last.outcome.content =
          JoinLines(<<"CREATIVITY: 9", "HUMOR: 7", "IMPACT: 10", "DELIVERY: N/A">>)
    /\ last.result.status = "returned"
    /\ last.result.value.delivery = 5
    /\ last.result.value.overall = 78

\* C7 as stated: at any time the scorer is in AI mode exactly when the
\* credential it was constructed with is non-empty
C7_ModeFromArgument == use_ai = Truthy(ctor_arg)

\* C7 amended: at any time, whatever calls were made, the scorer is in AI
\* mode exactly when the constructor argument or, that being absent or
\* empty, the GROQ_API_KEY environment variable is non-empty
C7_ModeFromArgumentOrEnv ==
    /\ use_ai = (Truthy(ctor_arg) \/ Truthy(env_key))
    /\ api_key = IF Truthy(ctor_arg) THEN ctor_arg ELSE env_key

C7_Witness ==
    /\ ctor_arg = None /\ env_key = "gsk_env"
    /\ use_ai
    /\ calls >= 2
    /\ first.op = "score_roast" /\ first.outcome.kind = "text"
    /\ last.op = "score_roast" /\ last.outcome.kind = "raise"

\* the letter of the threshold table for an overall given in tenths
GradeOfOverall(tenths) ==
    IF tenths >= 90 THEN "S"
    ELSE IF tenths >= 80 THEN "A"
    ELSE IF tenths >= 70 THEN "B"
    ELSE IF tenths >= 60 THEN "C"
    ELSE IF tenths >= 50 THEN "D"
    ELSE "F"

\* C8: the grade of every record is the letter the threshold table gives for
\* the record's own rounded overall
C8_GradeOfRoundedOverall ==
    ScoreReturned => last.result.value.grade = GradeOfOverall(last.result.value.overall)

\* a record whose unrounded mean, 7.75, differs from its overall
C8_Witness ==
    /\ ScoreReturned /\ use_ai
    /\ SumOver(last.result.value, DimSet) = 31
    /\ last.result.value.overall = 78
    /\ last.result.value.grade = "B"

\* the winner label with the two sides exchanged
SwapLabel(winner) ==
    IF winner = "Roast 1" THEN "Roast 2" ELSE IF winner = "Roast 2" THEN "Roast 1" ELSE winner

\* C9: compare_roasts returns the record of its first argument, the record
\* of its second argument and a winner decided by the overall fields alone;
\* in rule-based mode the call with the arguments swapped returns the
\* records swapped and the winner label swapped
C9_Compare ==
    (last.op = "compare_roasts" /\ last.result.status = "returned") =>
        LET scores1 == last.result.value[1]
            scores2 == last.result.value[2]
            winner == last.result.value[3]
        IN  /\ scores1 = score_roast(last.roast1, last.outcome1).value
            /\ scores2 = score_roast(last.roast2, last.outcome2).value
            /\ winner \in {"Roast 1", "Roast 2", "Tie"}
            /\ winner = "Roast 1" <=> scores1.overall > scores2.overall
            /\ winner = "Roast 2" <=> scores2.overall > scores1.overall
            /\ winner = "Tie" <=> scores1.overall = scores2.overall
            /\ (~use_ai /\ calls = 2 /\ first.op = "compare_roasts"
                    /\ first.roast1 = last.roast2 /\ first.roast2 = last.roast1) =>
                  /\ scores1 = first.result.value[2]
                  /\ scores2 = first.result.value[1]
                  /\ winner = SwapLabel(first.result.value[3])

C9_Witness ==
    /\ ~use_ai /\ calls = 2
    /\ first.op = "compare_roasts" /\ last.op = "compare_roasts"
    /\ first.roast1 = "A devastatingly clever line." /\ first.roast2 = "You're fine."
    /\ last.roast1 = "You're fine." /\ last.roast2 = "A devastatingly clever line."
    /\ first.result.value[3] = "Roast 1"
    /\ last.result.value[3] = "Roast 2"
    /\ last.result.value[1].delivery = 3

\* the call was a score_roast that rule-based scoring answered: the scorer is
\* in rule-based mode, or the remote call failed, or its text had no numeric key
RuleBasedCall(call) ==
    /\ call.op = "score_roast"
    /\ \/ call.outcome = NoRemote
       \/ call.outcome.kind \in {"raise", "no_choices", "none_content"}
       \/ call.outcome.kind = "text" /\ KeysIn(call.outcome.content) = {}

\* C10: a roast scored by the rule-based scorer gets the record it got in the
\* scorer's first call, whatever calls were made in between
C10_HistoryIndependent ==
    (RuleBasedCall(first) /\ RuleBasedCall(last) /\ first.roast = last.roast) =>
        last.result.value = first.result.value

C10_Witness ==
    /\ calls >= 3
    /\ use_ai
    /\ RuleBasedCall(first) /\ first.outcome.kind = "text"
    /\ RuleBasedCall(last) /\ last.outcome.kind = "raise"
    /\ first.roast = "Really?! Wow!! Just wow!!!"
    /\ last.roast = first.roast
    /\ last.result.value.humor = 5

\* the number of rounds the history display shows
ShownRounds == 5

\* C11: the number of stored history records never exceeds a fixed limit,
\* the number of rounds the display shows, however many rounds are played
\* without a reset
C11_HistoryBounded == Len(battle_history) <= ShownRounds

\* the operations of a log, in order
Ops(log) == [i \in 1..Len(log) |-> log[i].op]

\* the operations of a whole round that winner wins
RoundOps(winner) ==
    <<"battle_round", "generate_roast", "score_roast", "score_roast", "compare">> \o
        (IF winner = "You" THEN <<"user_score += 1">>
         ELSE IF winner = "AI" THEN <<"ai_score += 1">>
         ELSE <<>>) \o
    <<"battle_history.append">>

IsPrefix(s, t) == Len(s) <= Len(t) /\ s = SubSeq(t, 1, Len(s))

\* str.strip() leaves nothing of s
Blank(s) == \A i \in 1..Len(s) : IsSpace(Char(s, i))

\* the latest battle_round call found the models initialised
RoundStarted == steps # <<>> /\ (Len(steps) >= 2 => steps[2].op # "st.error")

\* C12: a round started with models initialised makes one generator call,
\* then scores the user's roast, then the AI roast, then compares, then
\* increments at most one win counter, then appends one history record, in
\* this order and each once; it ends only after the append, whatever the
\* generator did; the AI text scored is the generator's text, or the
\* substitute error text when the generator returned a blank or raised
C12_RoundOrder ==
    RoundStarted =>
        /\ \E winner \in {"You", "AI", "Tie"} : IsPrefix(Ops(steps), RoundOps(winner))
        /\ battle.pc = "idle" =>
              \E winner \in {"You", "AI", "Tie"} : Ops(steps) = RoundOps(winner)
        /\ Len(steps) >= 3 => steps[3].roast = steps[1].user_roast
        /\ Len(steps) >= 4 =>
              steps[4].roast =
                  IF steps[2].result.status = "raised"
                  THEN "Error: " \o steps[2].result.exc
                  ELSE IF Blank(steps[2].result.value) THEN "Error: No roast generated"
                  ELSE steps[2].result.value
        /\ Len(steps) >= 5 =>
              /\ steps[3].result.status = "returned"
              /\ steps[4].result.status = "returned"
              /\ steps[5].winner = "You" <=>
                    steps[3].result.value.overall > steps[4].result.value.overall
              /\ steps[5].winner = "AI" <=>
                    steps[4].result.value.overall > steps[3].result.value.overall
        /\ (battle.pc = "idle" /\ round_number > 0) =>
              /\ steps[Len(steps)].record = battle_history[Len(battle_history)]
              /\ steps[Len(steps)].record =
                    [round      |-> round_number,
                     user_roast |-> steps[1].user_roast,
                     ai_roast   |-> steps[4].roast,
                     user_score |-> steps[3].result.value.overall,
                     ai_score   |-> steps[4].result.value.overall,
                     winner     |-> steps[5].winner]

\* a second round whose generator returned an empty text: the substitute
\* was scored, the user won and the round is in the history
C12_Witness ==
    /\ battle.pc = "idle"
    /\ round_number = 2
    /\ Ops(steps) = RoundOps("You")
    /\ steps[2].result.value = ""
    /\ steps[4].roast = "Error: No roast generated"
    /\ steps[4].result.value.overall = 50
    /\ Len(battle_history) = 2
    /\ battle_history[2].winner = "You"
    /\ battle_history[2].ai_roast = "Error: No roast generated"

\* the lines of a response, each as its key, the text before the first
\* colon stripped and upper-cased, and its value, the text after it
\* stripped; a line without a colon has no key
Fields(content) ==
    LET lines == Split(Strip(content), NL)
    IN  [i \in 1..Len(lines) |->
            IF HasChar(lines[i], ":")
            THEN [key   |-> Upper(Strip(SubSeq(lines[i], 1, Find(lines[i], ":") - 1))),
                  value |-> Strip(SubSeq(lines[i], Find(lines[i], ":") + 1, Len(lines[i])))]
            ELSE [key |-> None, value |-> None]]

FieldsOf == [content \in AllResponses |-> Fields(content)]

\* the value of the last of the lines of fields whose key is K, of which
\* there is one
LastValue(fields, K) ==
    fields[CHOOSE i \in 1..Len(fields) :
              /\ fields[i].key = K
              /\ \A j \in (i + 1)..Len(fields) : fields[j].key # K].value

\* the sub-score the response gives for a key it has: the integer on the
\* key's last line, or 5 when that line's value is not an integer
Recovered(content, K) ==
    IF ParseInt(LastValue(FieldsOf[content], K)).ok
    THEN ParseInt(LastValue(FieldsOf[content], K)).val
    ELSE 5

\* C13: in AI mode, for a response with at least one and fewer than four of
\* the numeric keys, each key of the response has in the record the value of
\* its last line, each missing key has 5, and overall is the mean of the
\* sub-scores of the keys of the response alone, rounded to one decimal
C13_MeanOfRecovered ==
    (AiText /\ KeysIn(last.outcome.content) # {}
            /\ KeysIn(last.outcome.content) # NumericKeys) =>
        /\ last.result.status = "returned"
        /\ \A K \in NumericKeys \ KeysIn(last.outcome.content) :
              last.result.value[Lower(K)] = 5
        /\ \A K \in KeysIn(last.outcome.content) :
              last.result.value[Lower(K)] = Recovered(last.outcome.content, K)
        /\ last.result.value.overall =
              Round1(SumOver(last.result.value,
                             {Lower(K) : K \in KeysIn(last.outcome.content)}),
                     Cardinality(KeysIn(last.outcome.content)))

\* creativity once, delivery twice: overall is (9 + 2) / 2, not (9 + 5 + 5 + 2) / 4
C13_Witness ==
    /\ AiText
    /\ last.outcome.content = JoinLines(<<"CREATIVITY: 9", "DELIVERY: 8", "DELIVERY: 2">>)
    /\ last.result.status = "returned"
    /\ last.result.value.delivery = 2
    /\ last.result.value.humor = 5
    /\ last.result.value.overall = 55

\* the response has a line whose key is FEEDBACK
HasFeedbackLine(content) ==
    \E i \in 1..Len(FieldsOf[content]) : FieldsOf[content][i].key = "FEEDBACK"

\* the latest score_roast call ran in AI mode on a response with at least
\* one numeric key
AiUsed == AiText /\ KeysIn(last.outcome.content) # {}

\* C14 as stated: in AI mode, for a response with at least one numeric key,
\* feedback is the value of the FEEDBACK line whenever the response has a
\* FEEDBACK line, and "Nice roast!" when it has none
C14_FeedbackOfLine ==
    AiUsed =>
        last.result.value.feedback =
            IF HasFeedbackLine(last.outcome.content)
            THEN LastValue(FieldsOf[last.outcome.content], "FEEDBACK")
            ELSE "Nice roast!"

\* C14 amended: in AI mode, for a response with at least one numeric key,
\* feedback is the stripped value of the last FEEDBACK line when the
\* response has a FEEDBACK line and that value is not empty, and
\* "Nice roast!" when there is no FEEDBACK line or the last one has an
\* empty value
C14_FeedbackOfLastNonEmpty ==
    AiUsed =>
        last.result.value.feedback =
            IF /\ HasFeedbackLine(last.outcome.content)
               /\ LastValue(FieldsOf[last.outcome.content], "FEEDBACK") # ""
            THEN LastValue(FieldsOf[last.outcome.content], "FEEDBACK")
            ELSE "Nice roast!"

\* a FEEDBACK line with a value followed by one without: the default is used
C14_Witness ==
    /\ AiUsed
    /\ last.outcome.content =
          JoinLines(<<"HUMOR: 7", "FEEDBACK: Sharp, but wordy.", "FEEDBACK:">>)
    /\ last.result.status = "returned"
    /\ last.result.value.humor = 7
    /\ last.result.value.feedback = "Nice roast!"

\* the latest call was a score_roast that rule-based scoring answered
RuleScored == last.op = "score_roast" /\ RuleBasedCall(last) /\ last.result.status = "returned"

\* key is the first dimension, in the order creativity, humor, impact,
\* delivery, whose value in record is value
FirstWith(record, key, value) ==
    \E i \in 1..Len(Dims) :
        /\ Dims[i] = key
        /\ record[key] = value
        /\ \A j \in 1..(i - 1) : record[Dims[j]] # value

\* the greatest and the least of the four sub-scores of a record
Highest(record) == CHOOSE v \in 1..10 : /\ \E key \in DimSet : record[key] = v
                                        /\ \A key \in DimSet : record[key] <= v

Lowest(record) == CHOOSE v \in 1..10 : /\ \E key \in DimSet : record[key] = v
                                       /\ \A key \in DimSet : record[key] >= v

\* the fixed suggestion of each dimension
Suggestion ==
    [creativity |-> "Try using more metaphors or unexpected comparisons!",
     humor      |-> "Add more wit or clever wordplay to make it funnier!",
     impact     |-> "Make it more cutting - go for the jugular!",
     delivery   |-> "Work on making it more concise and punchy!"]

\* C15: the feedback of a rule-based record is "Strong {highest}, but
\* {suggestion of lowest}", for the first dimension of greatest and the
\* first of least sub-score, exactly when greatest minus least is more than
\* 2, and "Well-balanced roast! Keep it up!" otherwise, a gap of 2 included
C15_RuleFeedback ==
    RuleScored =>
        \E highest \in DimSet : \E lowest \in DimSet :
            /\ FirstWith(last.result.value, highest, Highest(last.result.value))
            /\ FirstWith(last.result.value, lowest, Lowest(last.result.value))
            /\ last.result.value.feedback =
                  IF Highest(last.result.value) - Lowest(last.result.value) > 2
                  THEN "Strong " \o highest \o ", but " \o Suggestion[lowest]
                  ELSE "Well-balanced roast! Keep it up!"

\* a gap of exactly 2, between three sub-scores of 5 and a delivery of 3
C15_Witness ==
    /\ RuleScored
    /\ ~use_ai
    /\ last.roast = "You're fine."
    /\ Highest(last.result.value) = 5
    /\ Lowest(last.result.value) = 3
    /\ last.result.value.feedback = "Well-balanced roast! Keep it up!"

\* the number of records of the history that winner won
Wins(winner) ==
    Cardinality({i \in 1..Len(battle_history) : battle_history[i].winner = winner})

\* the tally between two handlers
TallyConsistent ==
    battle.pc = "idle" =>
        /\ round_number = Len(battle_history)
        /\ \A i \in 1..Len(battle_history) : battle_history[i].round = i
        /\ user_score = Wins("You")
        /\ ai_score = Wins("AI")
        /\ user_score + ai_score <= round_number

\* a step is a battle_round call that found the models not initialised
RejectedRound ==
    /\ \E user_roast \in BattleRoasts : \E ai_style \in BattleStyles :
       \E ctor \in CtorOutcomes :
           Submit(user_roast, ai_style, ctor)
    /\ battle'.pc = "idle"

\* a step is a press of the Reset Battle button
ResetPressed == \E ctor \in CtorOutcomes : ResetBattle(ctor)

\* C16: whenever no round is in progress, round_number is the number of
\* history records, the records are numbered 1..round_number in order,
\* user_score and ai_score are the numbers of records won by the user and
\* by the AI, and their sum is at most round_number; a rejected round
\* changes none of them; a reset sets the three counters to 0 and empties
\* the history
C16_Tally ==
    /\ []TallyConsistent
    /\ [][RejectedRound =>
             UNCHANGED <<battle_history, user_score, ai_score, round_number>>]_vars
    /\ [][ResetPressed =>
             /\ battle_history' = <<>>
             /\ user_score' = 0
             /\ ai_score' = 0
             /\ round_number' = 0]_vars

\* two rounds played: one won by the AI, one tied
C16_Witness ==
    /\ battle.pc = "idle"
    /\ round_number = 2
    /\ Len(battle_history) = 2
    /\ battle_history[1].winner = "AI"
    /\ battle_history[2].winner = "Tie"
    /\ user_score = 0
    /\ ai_score = 1

\* the sub-scores of every roast before the clamp, each computed once
AdjustedOf == [roast \in Roasts |-> RuleAdjusted(roast)]

\* C17: for every roast that rule-based scoring answers, before the clamp
\* creativity is in 5..8, humor in 4..7, impact in 5..6 and delivery in
\* 3..7, so the clamp to [1,10] changes no value: the record has the
\* unclamped sub-scores; their sum is between 17 and 28 and the grade is B,
\* C, D or F
C17_RuleRanges ==
    RuleScored =>
        /\ AdjustedOf[last.roast].creativity \in 5..8
        /\ AdjustedOf[last.roast].humor \in 4..7
        /\ AdjustedOf[last.roast].impact \in 5..6
        /\ AdjustedOf[last.roast].delivery \in 3..7
        /\ \A key \in DimSet : last.result.value[key] = AdjustedOf[last.roast][key]
        /\ SumOver(last.result.value, DimSet) \in 17..28
        /\ last.result.value.grade \in {"B", "C", "D", "F"}

\* a roast with every bonus: the four upper ends at once, sum 28, grade B
C17_Witness ==
    /\ RuleScored
    /\ ~use_ai
    /\ last.roast = "Why are you like this? You are the worst, nobody likes you!"
    /\ last.result.value.creativity = 8
    /\ last.result.value.humor = 7
    /\ last.result.value.impact = 6
    /\ last.result.value.delivery = 7
    /\ last.result.value.overall = 70
    /\ last.result.value.grade = "B"

====
